---- MODULE Spec2Model ----
(***************************************************************************)
(* Payment gateway of cmd/api: the bounded admission queue filled by       *)
(* paymentHandler, the PaymentWorkerPool draining it, the shared health    *)
(* flag of PaymentProcessor, the health-refresh loop, the record/index     *)
(* store behind savePayment and the summary read path.                     *)
(***************************************************************************)
EXTENDS Integers, Sequences, FiniteSets, TLC

\* ---------------------------------------------------------------- bounds
\* Capacity of the admission queue (make(chan []byte, 10000)), scaled down.
QueueCap == 1
\* Number of worker goroutines (CONCURRENCY, default 20), scaled down.
Concurrency == 2
\* Number of POST /payments requests that may be admitted in one run.
MaxTasks == 1
\* The same, in the specification of the worker pool.
PoolTasks == 2
\* The same, in the specification of the pool during an outage.
OutageTasks == 3
\* Cap on the delivery attempts of one task (the code itself has none).
MaxAttempts == 4
\* Last instant time.Now() may return, in milliseconds.
MaxNow == 1000

\* ------------------------------------------------------ program constants
maxRetries == 3
\* Bits in the significand of a float64.
MantissaBits == 53
StatusOK == 200
StatusCreated == 201
StatusInternalServerError == 500
StatusServiceUnavailable == 503
\* time.RFC3339 has a resolution of one second; UnixMilli counts milliseconds.
MsPerSecond == 1000

\* ------------------------------------------------------------ value sets
Workers == 1..Concurrency
TaskIds == 1..MaxTasks
Cids == {"c1", "c2"}
\* The correlationIds in the byte order of their keys.
CidOrder == <<"c1", "c2">>
\* Amounts are in hundredths of the currency unit.
Malformed == [ok |-> FALSE, cid |-> "c1", amount |-> 0]
Payloads == {[ok |-> TRUE, cid |-> "c1", amount |-> 5],
             [ok |-> TRUE, cid |-> "c2", amount |-> 10], Malformed}
NoTask == 0
NoBody == [ok |-> FALSE, cid |-> "", amount |-> 0]
\* Status codes a provider may answer POST /payments with.
ProviderStatuses == {200, 201, 422, 500}
\* Instants time.Now() may return: every half second after start up to MaxNow.
Times == {t \in 1..MaxNow : t % (MsPerSecond \div 2) = 0}
\* Amounts of the records already in the store at start: 0.01 and 2.34
\* besides those of Payloads.
StoredAmounts == {1, 234} \cup {p.amount : p \in Payloads}
NoRec == [present |-> FALSE]
\* A value under payments:<cid> that json.Unmarshal rejects.
Garbled == [present |-> TRUE, garbled |-> TRUE]
NoScore == -1
NoSummary == [defaultRequests |-> 0, defaultAmount |-> 0,
              fallbackRequests |-> 0, fallbackAmount |-> 0]
NoResp == [route |-> "none", status |-> 0, body |-> NoSummary]
\* Instants a summary query may name in from and to.
QueryTimes == {0} \cup Times
Abort == -1
\* p.client.Post returned an error instead of a response.
NetErr == 0

VARIABLES
    phase,      \* "running" | "closing" (queue closed) | "exited" | "crashed"
    queue,      \* the channel buffer: sequence of task ids (one per buffer)
    body,       \* body[t]: the bytes of admitted request t
    nextId,     \* id the next admitted request gets
    up,         \* PaymentProcessor.up
    cache,      \* shared store key health_check: "nil" | "true" | "false"
    master,     \* MASTER role flag of this process
    pc,         \* pc[w]: position of worker w
    cur,        \* cur[w]: task held by worker w
    stamp,      \* stamp[w]: now of the running ProcessTask
    target,     \* target[w]: provider the running ProcessTask posted to
    records,    \* records[cid]: value under payments:<cid>
    index,      \* index[cid]: score of member payments:<cid> in payments:by-date
    resp,       \* last HTTP response written by a handler
    attempts,   \* attempts[t]: POSTs sent to a provider for task t
    answers,    \* answers[t]: the answers to t so far follow 500, 500, 2xx
    won,        \* won[t]: some attempt of t was answered 2xx
    done,       \* done[t]: "no" | "saved" | "down" | "status" | "maxretries"
    probed,     \* provider whose health endpoint the last refresh called
    tries       \* tries[w]: Tries of the task decoded by worker w

vars == <<phase, queue, body, nextId, up, cache, master, pc, cur, stamp,
          target, records, index, resp, attempts, answers, won, done,
          probed, tries>>

storeVars == <<records, index>>
workerVars == <<pc, cur, stamp, target>>
ghostVars == <<attempts, answers, won, done>>

\* ----------------------------------------------------------------- Init
\* The flag starts UP unless the store says DOWN.
NewPaymentProcessor_UpWhenAbsent(cached) == cached # "false"

\* NewPaymentProcessor: up is the cached health value, false when absent.
NewPaymentProcessor(cached) == cached = "true"

Init ==
    /\ phase = "running"
    /\ queue = <<>>
    /\ body = [t \in TaskIds |-> NoBody]
    /\ nextId = 1
    /\ cache \in {"nil", "true", "false"}
    /\ up = NewPaymentProcessor(cache)
    /\ master \in BOOLEAN
    /\ pc = [w \in Workers |-> "recv"]
    /\ cur = [w \in Workers |-> NoTask]
    /\ stamp = [w \in Workers |-> 0]
    /\ target = [w \in Workers |-> "none"]
    /\ records = [c \in Cids |-> NoRec]
    /\ index = [c \in Cids |-> NoScore]
    /\ resp = NoResp
    /\ attempts = [t \in TaskIds |-> 0]
    /\ answers = [t \in TaskIds |-> TRUE]
    /\ won = [t \in TaskIds |-> FALSE]
    /\ done = [t \in TaskIds |-> "no"]
    /\ probed = "none"
    /\ tries = [w \in Workers |-> 0]

Alive == phase \in {"running", "closing"}

\* ------------------------------------------------------- POST /payments
\* select { case queue <- task: default: } on a buffered channel: a send
\* on a closed channel panics, a full buffer takes the default branch.
TrySend(q, closed, item) ==
    IF closed THEN [outcome |-> "panic", q |-> q]
    ELSE IF Len(q) < QueueCap THEN [outcome |-> "sent", q |-> Append(q, item)]
    ELSE [outcome |-> "full", q |-> q]

\* The handler for a POST whose body was read (a request with another method
\* or an unreadable body is answered 405 or 500 before the queue is touched).
paymentHandler(payload) ==
    /\ Alive
    /\ LET r == TrySend(queue, phase = "closing", nextId) IN
       /\ r.outcome = "sent" => nextId <= Len(body)
       /\ queue' = r.q
       /\ IF r.outcome = "sent"
          THEN /\ body' = [body EXCEPT ![nextId] = payload]
               /\ nextId' = nextId + 1
               /\ resp' = [route |-> "payments", status |-> StatusCreated, body |-> NoSummary]
          ELSE /\ UNCHANGED <<body, nextId>>
               /\ resp' = [route |-> "payments",
                           status |-> IF r.outcome = "full"
                                      THEN StatusServiceUnavailable
                                      ELSE Abort,
                           body |-> NoSummary]
    /\ UNCHANGED <<tries, probed, phase, up, cache, master, workerVars, storeVars,
                   ghostVars>>

\* ------------------------------------------------------------- shutdown
\* main: <-quit; close(queue)
CloseQueue ==
    /\ phase = "running"
    /\ phase' = "closing"
    /\ UNCHANGED <<tries, probed, queue, body, nextId, up, cache, master, workerVars,
                   storeVars, resp, ghostVars>>

\* main: httpServer.Shutdown(ctx) returns and main returns: the process ends.
MainReturn ==
    /\ phase = "closing"
    /\ phase' = "exited"
    /\ UNCHANGED <<tries, probed, queue, body, nextId, up, cache, master, workerVars,
                   storeVars, resp, ghostVars>>

\* ------------------------------------------------------- PaymentProcessor
\* The flag is not looked at.
baseURL_DefaultOnly(isUp) == "default"

baseURL(isUp) == IF isUp THEN "default" ELSE "fallback"

isRetryableError(statusCode) == statusCode \div 100 = 5

\* now.Format(time.RFC3339): the instant cut to whole seconds.
FormatRFC3339(t) == (t \div MsPerSecond) * MsPerSecond

\* What ProcessTask does with a provider's status code.
Classify_SaveAlways(statusCode) ==
    IF statusCode = StatusOK \/ isRetryableError(statusCode) THEN "save" ELSE "drop"

Classify(statusCode) ==
    IF isRetryableError(statusCode) THEN "retry"
    ELSE IF statusCode = StatusOK THEN "save"
    ELSE "drop"

\* Whether the answers to a task so far follow "500, 500, then 2xx":
\* n is the number of the attempt that got the answer.
FollowB(sofar, n, outcome) ==
    /\ sofar
    /\ \/ n \in {1, 2} /\ outcome = 500
       \/ n = 3 /\ outcome \in {200, 201}

\* pipe.Set + pipe.ZAdd + pipe.Exec of a TxPipeline (MULTI/EXEC): "ok" applies
\* both and returns nil, "failed" applies none and returns an error,
\* "noreply" applies both and returns an error (the reply was lost).
TxPipelineExec_TwoCalls(recs, idx, k, j, score, outcome) ==
    [records |-> IF outcome \in {"ok", "noreply", "failed"}
                 THEN [recs EXCEPT ![k] = j] ELSE recs,
     index |-> IF outcome \in {"ok", "noreply"}
               THEN [idx EXCEPT ![k] = score] ELSE idx,
     err |-> outcome # "ok"]

TxPipelineExec(recs, idx, k, j, score, outcome) ==
    [records |-> IF outcome \in {"ok", "noreply"}
                 THEN [recs EXCEPT ![k] = j] ELSE recs,
     index |-> IF outcome \in {"ok", "noreply"}
               THEN [idx EXCEPT ![k] = score] ELSE idx,
     err |-> outcome # "ok"]

ExecOutcomes == {"ok", "failed", "noreply"}

\* --------------------------------------------------- PaymentWorkerPool
\* A pool whose workers receive under a lock that a worker holds from its
\* receive to the end of its backoff.
Dequeue_WhileNoneSleeps(w) ==
    /\ Alive
    /\ pc[w] = "recv"
    /\ queue # <<>>
    /\ \A v \in Workers : pc[v] # "sleep"
    /\ LET t == Head(queue) IN
       /\ queue' = Tail(queue)
       /\ IF ~up
          THEN /\ done' = [done EXCEPT ![t] = "down"]
               /\ UNCHANGED <<phase, pc, cur>>
          ELSE IF ~body[t].ok
          THEN /\ phase' = "crashed"
               /\ UNCHANGED <<pc, cur, done>>
          ELSE /\ pc' = [pc EXCEPT ![w] = "process"]
               /\ cur' = [cur EXCEPT ![w] = t]
               /\ UNCHANGED <<phase, done>>
    /\ UNCHANGED <<tries, probed, body, nextId, up, cache, master, stamp, target,
                   storeVars, resp, attempts, answers, won>>

\* for buff := range wp.queue { if !wp.pp.IsUp() { continue }; Unmarshal ... }
Dequeue(w) ==
    /\ Alive
    /\ pc[w] = "recv"
    /\ queue # <<>>
    /\ LET t == Head(queue) IN
       /\ queue' = Tail(queue)
       /\ IF ~up
          THEN /\ done' = [done EXCEPT ![t] = "down"]
               /\ UNCHANGED <<phase, pc, cur>>
          ELSE IF ~body[t].ok
          THEN /\ phase' = "crashed"
               /\ UNCHANGED <<pc, cur, done>>
          ELSE /\ pc' = [pc EXCEPT ![w] = "process"]
               /\ cur' = [cur EXCEPT ![w] = t]
               /\ UNCHANGED <<phase, done>>
    /\ UNCHANGED <<tries, probed, body, nextId, up, cache, master, stamp, target,
                   storeVars, resp, attempts, answers, won>>

\* range over a closed and drained channel ends the goroutine.
WorkerExit(w) ==
    /\ phase = "closing"
    /\ pc[w] = "recv"
    /\ queue = <<>>
    /\ pc' = [pc EXCEPT ![w] = "exit"]
    /\ UNCHANGED <<tries, probed, phase, queue, body, nextId, up, cache, master, cur,
                   stamp, target, storeVars, resp, ghostVars>>

\* ProcessTask up to p.client.Post: now is taken, the base URL is chosen.
Post(w, t0) ==
    /\ Alive
    /\ pc[w] = "process"
    /\ attempts[cur[w]] < MaxAttempts
    /\ stamp' = [stamp EXCEPT ![w] = t0]
    /\ target' = [target EXCEPT ![w] = baseURL(up)]
    /\ attempts' = [attempts EXCEPT ![cur[w]] = @ + 1]
    /\ pc' = [pc EXCEPT ![w] = "posted"]
    /\ UNCHANGED <<tries, probed, phase, queue, body, nextId, up, cache, master, cur,
                   storeVars, resp, answers, won, done>>

\* ProcessTask from the return of p.client.Post to savePayment or return.
Respond(w, outcome) ==
    /\ Alive
    /\ pc[w] = "posted"
    /\ LET t == cur[w]
           c == IF outcome = NetErr THEN "retry" ELSE Classify(outcome) IN
       /\ answers' = [answers EXCEPT ![t] = FollowB(@, attempts[t], outcome)]
       /\ won' = [won EXCEPT ![t] = @ \/ outcome \in {200, 201}]
       /\ up' = IF outcome # NetErr /\ isRetryableError(outcome) THEN FALSE ELSE up
       /\ IF c = "retry"
          THEN /\ pc' = [pc EXCEPT ![w] = "sleep"]
               /\ stamp' = [stamp EXCEPT ![w] = 0]
               /\ target' = [target EXCEPT ![w] = "none"]
               /\ UNCHANGED <<cur, done>>
          ELSE IF c = "save"
          THEN /\ pc' = [pc EXCEPT ![w] = "save"]
               /\ UNCHANGED <<cur, done, stamp, target>>
          ELSE /\ pc' = [pc EXCEPT ![w] = "recv"]
               /\ cur' = [cur EXCEPT ![w] = NoTask]
               /\ stamp' = [stamp EXCEPT ![w] = 0]
               /\ target' = [target EXCEPT ![w] = "none"]
               /\ done' = [done EXCEPT ![t] = "status"]
    /\ UNCHANGED <<tries, probed, phase, queue, body, nextId, cache, master,
                   storeVars, resp, attempts>>

\* savePayment and the return of ProcessTask after it. The field via is
\* history: the provider the request of this attempt was posted to.
savePayment(w, outcome) ==
    /\ Alive
    /\ pc[w] = "save"
    /\ LET t == cur[w]
           j == [present |-> TRUE, amount |-> body[t].amount,
                 requestedAt |-> FormatRFC3339(stamp[w]),
                 onDefault |-> up, via |-> target[w]]
           r == TxPipelineExec(records, index, body[t].cid, j, stamp[w], outcome) IN
       /\ records' = r.records
       /\ index' = r.index
       /\ stamp' = [stamp EXCEPT ![w] = 0]
       /\ target' = [target EXCEPT ![w] = "none"]
       /\ IF r.err
          THEN /\ pc' = [pc EXCEPT ![w] = "sleep"]
               /\ UNCHANGED <<cur, done>>
          ELSE /\ pc' = [pc EXCEPT ![w] = "recv"]
               /\ cur' = [cur EXCEPT ![w] = NoTask]
               /\ done' = [done EXCEPT ![t] = "saved"]
    /\ UNCHANGED <<tries, probed, phase, queue, body, nextId, up, cache, master,
                   resp, attempts, answers, won>>

\* A worker that sends the task back and also goes on with it itself.
Requeue_KeepsTask(w) ==
    /\ Alive
    /\ pc[w] = "sleep"
    /\ IF phase = "closing"
       THEN /\ phase' = "crashed"
            /\ UNCHANGED <<queue, pc, cur>>
       ELSE /\ Len(queue) < QueueCap
            /\ queue' = Append(queue, cur[w])
            /\ pc' = [pc EXCEPT ![w] = "process"]
            /\ UNCHANGED <<phase, cur>>
    /\ UNCHANGED <<tries, probed, body, nextId, up, cache, master, stamp, target,
                   storeVars, resp, ghostVars>>

\* The duration of the sleep before the task is sent back, in milliseconds:
\* time.Sleep(2 * time.Second), whatever the number of attempts made.
retryDelay == 2 * MsPerSecond

\* time.Sleep(2 * time.Second); wp.queue <- buff  (a blocking send)
Requeue(w) ==
    /\ Alive
    /\ pc[w] = "sleep"
    /\ IF phase = "closing"
       THEN /\ phase' = "crashed"
            /\ UNCHANGED <<queue, pc, cur>>
       ELSE /\ Len(queue) < QueueCap
            /\ queue' = Append(queue, cur[w])
            /\ pc' = [pc EXCEPT ![w] = "recv"]
            /\ cur' = [cur EXCEPT ![w] = NoTask]
            /\ UNCHANGED phase
    /\ UNCHANGED <<tries, probed, body, nextId, up, cache, master, stamp, target,
                   storeVars, resp, ghostVars>>

\* ------------------------------------------------------ health refresh
\* HealthCheck(ctx, masterInstance), called every 5 s by the refresh loop.
\* Leader: the GET goes to p.baseURL() + "/payments/service-health"; outcome
\* is the answer of that endpoint ("error": the GET or the decoding failed).
\* Follower: no GET is made; "error" is a failed store read.
HealthCheck(outcome) ==
    /\ Alive
    /\ IF master
       THEN /\ probed' = baseURL(up)
            /\ IF outcome \in {"failing", "healthy"}
               THEN /\ cache' = IF outcome = "healthy" THEN "true" ELSE "false"
                    /\ up' = (outcome = "healthy")
               ELSE UNCHANGED <<cache, up>>
       ELSE /\ up' = (outcome # "error" /\ cache = "true")
            /\ UNCHANGED <<cache, probed>>
    /\ UNCHANGED <<tries, phase, queue, body, nextId, master, workerVars,
                   storeVars, resp, ghostVars>>

\* -------------------------------------------------------------- float64
\* Amount and TotalAmount are float64. A non-negative float64 is [m, e]: m is
\* the significand in bits, lowest first, at most MantissaBits long, and the
\* value is m * 2^e (the exponent range is never left by sums of amounts).
Zero64 == [m |-> <<>>, e |-> 0]

Zeros(k) == IF k = 0 THEN <<>> ELSE [i \in 1..k |-> 0]

\* bits without the zeros on top.
TrimTop(bits) ==
    LET ones == {i \in 1..Len(bits) : bits[i] = 1} IN
    IF ones = {} THEN <<>>
    ELSE SubSeq(bits, 1, CHOOSE i \in ones : \A j \in ones : j <= i)

\* The exact sum of two bit strings: bit i of the sum is the sum of the two
\* bits and of the carry into place i, which a lower place j generates when
\* every place between j and i passes it on.
AddBits(a, b) ==
    LET n == IF Len(a) < Len(b) THEN Len(b) ELSE Len(a)
        At(s, i) == IF i <= Len(s) THEN s[i] ELSE 0
        Carry(i) == IF \E j \in 1..(i - 1) :
                          /\ At(a, j) + At(b, j) = 2
                          /\ \A k \in (j + 1)..(i - 1) : At(a, k) + At(b, k) >= 1
                    THEN 1 ELSE 0 IN
    TrimTop([i \in 1..(n + 1) |-> (At(a, i) + At(b, i) + Carry(i)) % 2])

\* An integer below 2^30 in bits, and back.
IntToBits(n) == TrimTop([i \in 1..30 |-> (n \div 2^(i - 1)) % 2])

BitsToInt(bits) ==
    LET V[i \in 0..Len(bits)] ==
            IF i = 0 THEN 0 ELSE V[i - 1] + bits[i] * 2^(i - 1) IN
    V[Len(bits)]

\* The float64 nearest to bits * 2^e, ties to the even significand: the
\* rounding every float64 operation ends with.
RoundNearestEven(bits, e) ==
    LET n == Len(bits)
        d == n - MantissaBits IN
    IF d <= 0 THEN [m |-> bits, e |-> e]
    ELSE LET kept == SubSeq(bits, d + 1, n)
             half == bits[d] = 1
             sticky == \E i \in 1..(d - 1) : bits[i] = 1
             r == IF half /\ (sticky \/ kept[1] = 1)
                  THEN AddBits(kept, <<1>>) ELSE kept IN
         IF Len(r) > MantissaBits THEN [m |-> Tail(r), e |-> e + d + 1]
         ELSE [m |-> r, e |-> e + d]

\* json.Unmarshal of the number c/100 (c in hundredths) into a float64: the
\* float64 nearest to it. The quotient is cut after MantissaBits + 11 binary
\* places; one more bit says whether anything was cut off.
ParseFloat(c) ==
    LET places == MantissaBits + 11
        Rem[i \in 0..places] == IF i = 0 THEN c % 100 ELSE (2 * Rem[i - 1]) % 100
        frac == [i \in 1..places |-> (2 * Rem[places - i]) \div 100]
        rest == IF Rem[places] = 0 THEN 0 ELSE 1 IN
    RoundNearestEven(TrimTop(<<rest>> \o frac \o IntToBits(c \div 100)),
                     0 - (places + 1))

\* x + y on float64.
Float64Add(x, y) ==
    IF x.m = <<>> THEN y
    ELSE IF y.m = <<>> THEN x
    ELSE LET e == IF x.e < y.e THEN x.e ELSE y.e IN
         RoundNearestEven(AddBits(Zeros(x.e - e) \o x.m, Zeros(y.e - e) \o y.m), e)

\* x * 10 on float64.
Float64Mul10(x) ==
    IF x.m = <<>> THEN x
    ELSE RoundNearestEven(AddBits(<<0, 0, 0>> \o x.m, <<0>> \o x.m), x.e)

\* math.Round: the nearest integer, halves away from zero.
mathRound(x) ==
    LET n == Len(x.m)
        k == 0 - x.e IN
    IF k <= 0 THEN BitsToInt(Zeros(x.e) \o x.m)
    ELSE (IF k < n THEN BitsToInt(SubSeq(x.m, k + 1, n)) ELSE 0)
         + (IF k <= n THEN x.m[k] ELSE 0)

\* TotalAmount += payment.Amount over the amounts amts, in their order.
TotalAmount(amts) ==
    LET Acc[i \in 0..Len(amts)] ==
            IF i = 0 THEN Zero64 ELSE Float64Add(Acc[i - 1], ParseFloat(amts[i])) IN
    Acc[Len(amts)]

\* math.Round(x*10) / 10, the result in hundredths: the quotient n / 10 is
\* the float64 that is written as the decimal n/10.
RoundedTotal(x) == mathRound(Float64Mul10(x)) * 10

\* RoundedTotal(TotalAmount(amts)) for every sequence of amounts the fetched
\* records of one summary may carry, as a table (@@ has it worked out once).
AmountSeqs == UNION {[1..n -> StoredAmounts] : n \in 0..Cardinality(Cids)}
RoundedTotals ==
    [amts \in AmountSeqs |-> RoundedTotal(TotalAmount(amts))] @@ <<>>

\* -------------------------------------------------- GET /payments-summary
\* ZRangeByScore(payments:by-date, Min: from, Max: to): both ends inclusive.
ZRangeByScore_Exclusive(idx, from, to) ==
    {k \in DOMAIN idx : idx[k] # NoScore /\ from < idx[k] /\ idx[k] <= to}

ZRangeByScore(idx, from, to) ==
    {k \in DOMAIN idx : idx[k] # NoScore /\ from <= idx[k] /\ idx[k] <= to}

\* The order in which a sorted set yields its members: by score, members of
\* one score by their bytes.
Rank(c) == CHOOSE i \in 1..Len(CidOrder) : CidOrder[i] = c

RECURSIVE InOrder(_, _)
InOrder(idx, ks) ==
    IF ks = {} THEN <<>>
    ELSE LET k == CHOOSE x \in ks : \A y \in ks :
                     \/ idx[x] < idx[y]
                     \/ idx[x] = idx[y] /\ Rank(x) <= Rank(y) IN
         <<k>> \o InOrder(idx, ks \ {k})

\* json.Unmarshal of a fetched value: nil and undecodable values are skipped.
Readable(v) == v.present /\ v # Garbled

\* The amounts of the records under the keys ks, in the order of ks.
Amounts(recs, ks) ==
    IF ks = <<>> THEN <<>> ELSE [i \in 1..Len(ks) |-> recs[ks[i]].amount]

\* The whole summary fails when a fetched value is nil or does not decode.
SummaryPayments_FailOnUnreadable(recs, idx, from, to, outcome) ==
    LET keys == ZRangeByScore(idx, from, to) IN
    IF outcome = "zrange" THEN [err |-> TRUE, res |-> NoSummary]
    ELSE IF keys = {} THEN [err |-> FALSE, res |-> NoSummary]
    ELSE [err |-> TRUE, res |-> NoSummary]

\* A failed fetch taken for a fetch that found nothing.
SummaryPayments_IgnoreFetchError(recs, idx, from, to, outcome) ==
    IF outcome = "zrange" THEN [err |-> TRUE, res |-> NoSummary]
    ELSE [err |-> FALSE, res |-> NoSummary]

\* outcome: "ok", "zrange" (the range query fails), "mget" (the fetch fails).
SummaryPayments(recs, idx, from, to, outcome) ==
    LET keys == ZRangeByScore(idx, from, to)
        found == {k \in keys : Readable(recs[k])}
        onDef == {k \in found : recs[k].onDefault}
        onFb == found \ onDef IN
    IF outcome = "zrange" THEN [err |-> TRUE, res |-> NoSummary]
    ELSE IF keys = {} THEN [err |-> FALSE, res |-> NoSummary]
    ELSE IF outcome = "mget" THEN [err |-> TRUE, res |-> NoSummary]
    ELSE [err |-> FALSE,
          res |-> [defaultRequests |-> Cardinality(onDef),
                   defaultAmount |-> RoundedTotals[Amounts(recs, InOrder(idx, onDef))],
                   fallbackRequests |-> Cardinality(onFb),
                   fallbackAmount |-> RoundedTotals[Amounts(recs, InOrder(idx, onFb))]]]

\* The handler for a GET whose from and to parse as RFC3339 instants.
paymentsSummaryHandler(from, to, outcome) ==
    /\ Alive
    /\ LET r == SummaryPayments(records, index, from, to, outcome) IN
       resp' = IF r.err
               THEN [route |-> "summary", status |-> StatusInternalServerError,
                     body |-> NoSummary]
               ELSE [route |-> "summary", status |-> StatusOK, body |-> r.res]
    /\ UNCHANGED <<tries, probed, phase, queue, body, nextId, up, cache, master, workerVars,
                   storeVars, ghostVars>>

\* The leader instance publishes its probe result to the shared store
\* (p.cache.Set in its HealthCheck); seen by this process when it is a follower.
PeerPublishes(v) ==
    /\ Alive
    /\ ~master
    /\ cache' = v
    /\ UNCHANGED <<tries, probed, phase, queue, body, nextId, up, master, workerVars,
                   storeVars, resp, ghostVars>>

Next ==
    \/ \E p \in Payloads : paymentHandler(p)
    \/ CloseQueue
    \/ MainReturn
    \/ \E w \in Workers : Dequeue(w)
    \/ \E w \in Workers : WorkerExit(w)
    \/ \E w \in Workers, t0 \in Times : Post(w, t0)
    \/ \E w \in Workers, o \in ProviderStatuses \cup {NetErr} : Respond(w, o)
    \/ \E w \in Workers, o \in ExecOutcomes : savePayment(w, o)
    \/ \E w \in Workers : Requeue(w)
    \/ \E o \in {"healthy", "failing", "error"} : HealthCheck(o)
    \/ \E v \in {"true", "false"} : PeerPublishes(v)
    \/ \E from \in QueryTimes, to \in QueryTimes, o \in {"ok", "zrange", "mget"} :
          paymentsSummaryHandler(from, to, o)

Spec == Init /\ [][Next]_vars

\* ------------------------------------------------- the summary read path
\* The store outlives the process and is shared with the peer instance: at
\* start it may hold the records of earlier runs, and an index entry may have
\* lost its record (a missing key) or name a value that does not decode.
StoredValues(score) ==
    {NoRec, Garbled} \cup
    {[present |-> TRUE, amount |-> a, requestedAt |-> FormatRFC3339(score),
      onDefault |-> d, via |-> baseURL(d)] : a \in StoredAmounts \ {0}, d \in BOOLEAN}

InitSummary ==
    /\ phase = "running"
    /\ queue = <<>>
    /\ body = [t \in TaskIds |-> NoBody]
    /\ nextId = 1
    /\ cache = "nil"
    /\ up = NewPaymentProcessor(cache)
    /\ master = FALSE
    /\ pc = [w \in Workers |-> "recv"]
    /\ cur = [w \in Workers |-> NoTask]
    /\ stamp = [w \in Workers |-> 0]
    /\ target = [w \in Workers |-> "none"]
    /\ index \in [Cids -> {NoScore} \cup Times]
    /\ records \in [Cids -> UNION {StoredValues(t) : t \in Times}]
    /\ \A c \in Cids : IF index[c] = NoScore THEN records[c] = NoRec
                        ELSE records[c] \in StoredValues(index[c])
    /\ resp = NoResp
    /\ attempts = [t \in TaskIds |-> 0]
    /\ answers = [t \in TaskIds |-> TRUE]
    /\ won = [t \in TaskIds |-> FALSE]
    /\ done = [t \in TaskIds |-> "no"]
    /\ probed = "none"
    /\ tries = [w \in Workers |-> 0]

NextSummary ==
    \E from \in QueryTimes, to \in QueryTimes, o \in {"ok", "zrange", "mget"} :
        paymentsSummaryHandler(from, to, o)

SpecSummary == InitSummary /\ [][NextSummary]_vars
\* ================================================================ claims
Admitted == 1..(nextId - 1)
CidOf(t) == body[t].cid
UniqueCid(t) == \A u \in Admitted : u # t => CidOf(u) # CidOf(t)
Persisted(c) == records[c].present /\ index[c] # NoScore

\* ------------------------------------------------------ the worker pool
\* The admission handler and the workers of a follower instance that starts
\* with the published value true, with up to PoolTasks admitted requests.
\* The refresh of the follower is one whose store read succeeds.
InitPool ==
    /\ phase = "running"
    /\ queue = <<>>
    /\ body = [t \in 1..PoolTasks |-> NoBody]
    /\ nextId = 1
    /\ cache = "true"
    /\ up = NewPaymentProcessor(cache)
    /\ master = FALSE
    /\ pc = [w \in Workers |-> "recv"]
    /\ cur = [w \in Workers |-> NoTask]
    /\ stamp = [w \in Workers |-> 0]
    /\ target = [w \in Workers |-> "none"]
    /\ records = [c \in Cids |-> NoRec]
    /\ index = [c \in Cids |-> NoScore]
    /\ resp = NoResp
    /\ attempts = [t \in 1..PoolTasks |-> 0]
    /\ answers = [t \in 1..PoolTasks |-> TRUE]
    /\ won = [t \in 1..PoolTasks |-> FALSE]
    /\ done = [t \in 1..PoolTasks |-> "no"]
    /\ probed = "none"
    /\ tries = [w \in Workers |-> 0]

NextPool ==
    \/ \E p \in Payloads : paymentHandler(p)
    \/ \E w \in Workers : Dequeue(w)
    \/ \E w \in Workers, t0 \in Times : Post(w, t0)
    \/ \E w \in Workers, o \in ProviderStatuses \cup {NetErr} : Respond(w, o)
    \/ \E w \in Workers, o \in ExecOutcomes : savePayment(w, o)
    \/ \E w \in Workers : Requeue(w)
    \/ HealthCheck("healthy")

SpecPool == InitPool /\ [][NextPool]_vars

\* ----------------------------------------- WorkerPool (internal/worker)
\* The pool of internal/worker/worker.go on the same queue of raw request
\* bodies. The field tries of a body is what the JSON of the request carries
\* under "tries" (0 when the field is absent): the handler enqueues the bytes
\* as they were posted.
WireTries == {-1, 0, maxRetries}
WorkerPoolPayloads ==
    {[ok |-> TRUE, cid |-> "c1", amount |-> 5, tries |-> n] : n \in WireTries}
        \cup {Malformed}

\* for buff := range wp.queue { Unmarshal (panic on error); task.Tries++ ...
StartWorkerRecv(w) ==
    /\ Alive
    /\ pc[w] = "recv"
    /\ queue # <<>>
    /\ LET t == Head(queue) IN
       /\ queue' = Tail(queue)
       /\ IF ~body[t].ok
          THEN /\ phase' = "crashed"
               /\ UNCHANGED <<pc, cur, tries>>
          ELSE /\ pc' = [pc EXCEPT ![w] = "process"]
               /\ cur' = [cur EXCEPT ![w] = t]
               /\ tries' = [tries EXCEPT ![w] = body[t].tries + 1]
               /\ UNCHANGED phase
    /\ UNCHANGED <<probed, body, nextId, up, cache, master, stamp, target,
                   storeVars, resp, ghostVars>>

\* After an error of ProcessTask: time.Sleep(Tries * time.Second), then
\* if task.Tries < wp.maxRetries { wp.queue <- json.Marshal(task) } else the
\* task is given up ("max retries reached").
StartWorkerRetry(w) ==
    /\ Alive
    /\ pc[w] = "sleep"
    /\ IF tries[w] < maxRetries
       THEN IF phase = "closing"
            THEN /\ phase' = "crashed"
                 /\ UNCHANGED <<queue, body, pc, cur, done>>
            ELSE /\ Len(queue) < QueueCap
                 /\ queue' = Append(queue, cur[w])
                 /\ body' = [body EXCEPT ![cur[w]].tries = tries[w]]
                 /\ pc' = [pc EXCEPT ![w] = "recv"]
                 /\ cur' = [cur EXCEPT ![w] = NoTask]
                 /\ UNCHANGED <<phase, done>>
       ELSE /\ pc' = [pc EXCEPT ![w] = "recv"]
            /\ cur' = [cur EXCEPT ![w] = NoTask]
            /\ done' = [done EXCEPT ![cur[w]] = "maxretries"]
            /\ UNCHANGED <<phase, queue, body>>
    /\ UNCHANGED <<tries, probed, nextId, up, cache, master, stamp, target,
                   storeVars, resp, attempts, answers, won>>

NextWorkerPool ==
    \/ \E p \in WorkerPoolPayloads : paymentHandler(p)
    \/ \E w \in Workers : StartWorkerRecv(w)
    \/ \E w \in Workers, t0 \in Times : Post(w, t0)
    \/ \E w \in Workers, o \in ProviderStatuses \cup {NetErr} : Respond(w, o)
    \/ \E w \in Workers, o \in ExecOutcomes : savePayment(w, o)
    \/ \E w \in Workers : StartWorkerRetry(w)
    \/ HealthCheck("healthy")

SpecWorkerPool == InitPool /\ [][NextWorkerPool]_vars

\* ----------------------------------------------- the pool in an outage
\* The admission handler and the workers of a follower instance while every
\* attempt fails: the provider answers 500 or the POST fails in transport.
\* Up to OutageTasks requests are admitted: one for every worker and one for
\* every place of the queue.
InitOutage ==
    /\ phase = "running"
    /\ queue = <<>>
    /\ body = [t \in 1..OutageTasks |-> NoBody]
    /\ nextId = 1
    /\ cache = "true"
    /\ up = NewPaymentProcessor(cache)
    /\ master = FALSE
    /\ pc = [w \in Workers |-> "recv"]
    /\ cur = [w \in Workers |-> NoTask]
    /\ stamp = [w \in Workers |-> 0]
    /\ target = [w \in Workers |-> "none"]
    /\ records = [c \in Cids |-> NoRec]
    /\ index = [c \in Cids |-> NoScore]
    /\ resp = NoResp
    /\ attempts = [t \in 1..OutageTasks |-> 0]
    /\ answers = [t \in 1..OutageTasks |-> TRUE]
    /\ won = [t \in 1..OutageTasks |-> FALSE]
    /\ done = [t \in 1..OutageTasks |-> "no"]
    /\ probed = "none"
    /\ tries = [w \in Workers |-> 0]

NextOutage ==
    \/ \E p \in Payloads : paymentHandler(p)
    \/ \E w \in Workers : Dequeue(w)
    \/ \E w \in Workers, t0 \in Times : Post(w, t0)
    \/ \E w \in Workers, o \in {StatusInternalServerError, NetErr} : Respond(w, o)
    \/ \E w \in Workers : Requeue(w)
    \/ HealthCheck("healthy")

SpecOutage == InitOutage /\ [][NextOutage]_vars

\* ------------------------------------------- the leader during recovery
\* The leader instance while the health endpoint of the default provider
\* answers failing=false every time and that of the fallback provider answers
\* failing=true or not at all. The refresh loop of StartHealthCheckWorker
\* runs for ever: for { time.Sleep(5 s); HealthCheck(ctx, master) }.
HealthAnswers(provider) ==
    IF provider = "default" THEN {"healthy"} ELSE {"failing", "error"}

\* One round of the loop: the answer is that of the endpoint HealthCheck calls.
StartHealthCheckWorker ==
    \E o \in HealthAnswers(baseURL(up)) : HealthCheck(o)

InitRecovery ==
    /\ phase = "running"
    /\ queue = <<>>
    /\ body = [t \in TaskIds |-> NoBody]
    /\ nextId = 1
    /\ cache \in {"nil", "true", "false"}
    /\ up = NewPaymentProcessor(cache)
    /\ master = TRUE
    /\ pc = [w \in Workers |-> "recv"]
    /\ cur = [w \in Workers |-> NoTask]
    /\ stamp = [w \in Workers |-> 0]
    /\ target = [w \in Workers |-> "none"]
    /\ records = [c \in Cids |-> NoRec]
    /\ index = [c \in Cids |-> NoScore]
    /\ resp = NoResp
    /\ attempts = [t \in TaskIds |-> 0]
    /\ answers = [t \in TaskIds |-> TRUE]
    /\ won = [t \in TaskIds |-> FALSE]
    /\ done = [t \in TaskIds |-> "no"]
    /\ probed = "none"
    /\ tries = [w \in Workers |-> 0]

NextRecovery ==
    \/ \E p \in Payloads : paymentHandler(p)
    \/ \E w \in Workers : Dequeue(w)
    \/ \E w \in Workers, t0 \in Times : Post(w, t0)
    \/ \E w \in Workers, o \in ProviderStatuses \cup {NetErr} : Respond(w, o)
    \/ \E w \in Workers, o \in ExecOutcomes : savePayment(w, o)
    \/ \E w \in Workers : Requeue(w)
    \/ StartHealthCheckWorker

\* The loop is never starved: a round that would change the state is taken.
SpecRecovery ==
    InitRecovery /\ [][NextRecovery]_vars /\ WF_vars(StartHealthCheckWorker)

\* C1 (as claimed): an enqueue made while the queue holds QueueCap items is
\* answered 503 and leaves the queue as it was, and the queue never holds
\* more than QueueCap items.
C1_Backpressure ==
    /\ [][\A p \in Payloads :
            (Len(queue) = QueueCap /\ paymentHandler(p))
                => (resp'.status = StatusServiceUnavailable /\ queue' = queue)]_vars
    /\ [](Len(queue) <= QueueCap)

\* C2 (as claimed): every POST /payments whose body was read either appends
\* the task to the queue and answers 201, or leaves the queue unchanged and
\* answers 503.
C2_BufferedOrRejected ==
    [][\A p \in Payloads :
         paymentHandler(p)
             => \/ /\ resp'.status = StatusCreated
                   /\ queue' = Append(queue, nextId)
                   /\ body'[nextId] = p
                \/ /\ resp'.status = StatusServiceUnavailable
                   /\ queue' = queue]_vars

\* C3 (as claimed): a task the worker pool has discarded was persisted or
\* had used up its retry budget of maxRetries attempts.
C3_DiscardOnlyWhenSettled ==
    \A t \in Admitted :
        done[t] # "no" => (done[t] = "saved" \/ attempts[t] >= maxRetries)

\* C4 (as claimed): the onDefault of every stored record says whether the
\* attempt that produced it was posted to the default provider.
C4_ProviderAttribution ==
    \A c \in Cids :
        records[c].present => (records[c].onDefault <=> records[c].via = "default")

\* C5 (as claimed): once a task with a unique correlationId that got a 2xx
\* answer has left the worker pool, its record and its index entry exist.
C5_PersistedAfterSuccess ==
    \A t \in Admitted :
        (done[t] # "no" /\ won[t] /\ UniqueCid(t)) => Persisted(CidOf(t))

\* C6 (as claimed): no task is delivered more than maxRetries times.
C6_BoundedRetries ==
    \A t \in Admitted : attempts[t] <= maxRetries

\* C7: a record or an index entry exists for a correlationId only if some
\* attempt of a task with that correlationId was answered 2xx; a task whose
\* attempts were all answered 500 leaves neither.
C7_NoRecordWithoutSuccess ==
    \A c \in Cids :
        (records[c].present \/ index[c] # NoScore)
            => \E t \in Admitted : CidOf(t) = c /\ won[t]

\* A record stored for a task that needed more than one attempt.
C7_Witness ==
    \E t \in Admitted : attempts[t] >= 2 /\ won[t] /\ Persisted(CidOf(t))

\* C8 (as claimed): a task answered 500, 500 and then 2xx has, when the pool
\* is through with it, been attempted three times and is persisted.
C8_RetryThenSuccess ==
    \A t \in Admitted :
        (done[t] # "no" /\ answers[t] /\ attempts[t] >= 1)
            => (attempts[t] = 3 /\ Persisted(CidOf(t)))

RECURSIVE SumAmounts(_, _)
SumAmounts(recs, ks) ==
    IF ks = {} THEN 0
    ELSE LET k == CHOOSE x \in ks : TRUE IN
         recs[k].amount + SumAmounts(recs, ks \ {k})

\* An exact amount in hundredths rounded to tenths, halves away from zero.
RoundTenth(c) == ((c + 5) \div 10) * 10

\* The fold of the claim: the records whose requestedAt is in [from, to].
ManualFold(recs, from, to) ==
    LET sel == {k \in DOMAIN recs :
                   recs[k].present /\ from <= recs[k].requestedAt
                                   /\ recs[k].requestedAt <= to}
        onDef == {k \in sel : recs[k].onDefault}
        onFb == sel \ onDef IN
    [defaultRequests |-> Cardinality(onDef),
     defaultAmount |-> RoundTenth(SumAmounts(recs, onDef)),
     fallbackRequests |-> Cardinality(onFb),
     fallbackAmount |-> RoundTenth(SumAmounts(recs, onFb))]

\* C10 (as claimed): for every window the summary is the count and the total
\* of the records whose requestedAt lies in the window, split by onDefault.
C10_SummaryCorrectness ==
    \A from \in QueryTimes, to \in QueryTimes :
        LET r == SummaryPayments(records, index, from, to, "ok") IN
        ~r.err /\ r.res = ManualFold(records, from, to)

\* The index entries of the window [from, to] and, of these, the ones whose
\* record is there and decodes.
Unreadable(c) == records[c] = NoRec \/ records[c] = Garbled
InWindow(from, to) == {c \in Cids : index[c] # NoScore /\ from <= index[c]
                                                       /\ index[c] <= to}
Selected(from, to) == {c \in InWindow(from, to) : ~Unreadable(c)}

\* C11 (as claimed): for every window that selects some record, both total
\* amounts of the summary are the exact sum of the selected amounts rounded to
\* one decimal place, halves away from zero.
C11_SummaryRounding ==
    \A from \in QueryTimes, to \in QueryTimes :
        LET sel == Selected(from, to)
            onDef == {c \in sel : records[c].onDefault}
            r == SummaryPayments(records, index, from, to, "ok") IN
        sel # {} => /\ r.res.defaultAmount = RoundTenth(SumAmounts(records, onDef))
                    /\ r.res.fallbackAmount
                           = RoundTenth(SumAmounts(records, sel \ onDef))

\* C12: for every window with an index entry whose record is missing or does
\* not decode, the summary returns no error and counts, per provider, every
\* record of the window that is there and decodes.
C12_SummaryTolerance ==
    \A from \in QueryTimes, to \in QueryTimes :
        LET sel == Selected(from, to)
            onDef == {c \in sel : records[c].onDefault}
            r == SummaryPayments(records, index, from, to, "ok") IN
        (\E c \in InWindow(from, to) : Unreadable(c))
            => /\ ~r.err
               /\ r.res.defaultRequests = Cardinality(onDef)
               /\ r.res.fallbackRequests = Cardinality(sel \ onDef)

\* A summary answered 200 that counted the one readable record of a window
\* whose other index entry has no readable record.
C12_Witness ==
    \E c \in Cids, k \in Cids :
        /\ index[c] # NoScore /\ index[k] = index[c]
        /\ Unreadable(c) /\ ~Unreadable(k)
        /\ resp.route = "summary" /\ resp.status = StatusOK
        /\ resp.body.defaultRequests + resp.body.fallbackRequests = 1

\* C13: a summary whose range query fails, or whose batch fetch is made and
\* fails, returns an error and no summary, is answered 500 with no summary,
\* and leaves the records and the index as they were.
C13_SummaryFailure ==
    [][\A from \in QueryTimes, to \in QueryTimes, o \in {"zrange", "mget"} :
         (/\ paymentsSummaryHandler(from, to, o)
          /\ (o = "zrange" \/ InWindow(from, to) # {}))
             => /\ SummaryPayments(records, index, from, to, o)
                       = [err |-> TRUE, res |-> NoSummary]
                /\ resp'.status = StatusInternalServerError
                /\ resp'.body = NoSummary
                /\ records' = records /\ index' = index]_vars

\* A summary over a store that holds records was answered 500.
C13_Witness ==
    /\ \E c \in Cids : Persisted(c)
    /\ resp.route = "summary" /\ resp.status = StatusInternalServerError

\* C14 (as claimed): a POST /payments handled after close(queue) adds nothing
\* to the queue and is answered with a rejection: not 201 and not an aborted
\* request.
C14_EnqueueAfterClose ==
    [][\A p \in Payloads :
         (phase = "closing" /\ paymentHandler(p))
             => /\ queue' = queue
                /\ resp'.status \notin {StatusCreated, Abort}]_vars

\* C15 (as claimed): when the process has ended after a shutdown, no item is
\* left in the queue and no worker is left holding a task.
C15_DrainOnShutdown ==
    phase = "exited"
        => /\ queue = <<>>
           /\ \A w \in Workers : cur[w] = NoTask

\* C16 (as claimed): a worker that takes a payload which does not decode
\* drops it and waits for the next item; the process goes on and the rest of
\* the queue and the other workers stay as they were.
C16_MalformedDropped ==
    [][\A w \in Workers :
         (Dequeue(w) /\ up /\ ~body[Head(queue)].ok)
             => /\ phase' = phase
                /\ queue' = Tail(queue)
                /\ pc' = pc /\ cur' = cur]_vars

\* C17: every attempt posts to the default provider when the flag read at
\* that attempt is UP and to the fallback when it is DOWN, whatever the
\* earlier attempts of the task did.
C17_RoutingDeterminism ==
    [][\A w \in Workers :
         (pc[w] = "process" /\ pc'[w] = "posted")
             => target'[w] = (IF up THEN "default" ELSE "fallback")]_vars

\* The second attempt of a task was posted to the fallback after its first
\* attempt had been posted to the default provider (and stored as such).
C17_Witness ==
    \E w \in Workers :
        /\ pc[w] = "posted" /\ attempts[cur[w]] = 2 /\ target[w] = "fallback"
        /\ records[CidOf(cur[w])].present
        /\ records[CidOf(cur[w])].via = "default"

\* C18 (as claimed): every refresh of the leader calls the health endpoint of
\* the default provider.
C18_LeaderProbesDefault ==
    [][\A o \in {"healthy", "failing", "error"} :
         (master /\ HealthCheck(o)) => probed' = "default"]_vars

\* C19 (as claimed): after a refresh of the leader the flag is UP when the
\* probe answered failing=false and DOWN when it answered failing=true or
\* failed, and the store holds that same value.
C19_LeaderStateUpdate ==
    [][\A o \in {"healthy", "failing", "error"} :
         (master /\ HealthCheck(o))
             => /\ up' = (o = "healthy")
                /\ cache' = (IF o = "healthy" THEN "true" ELSE "false")]_vars

\* C20: the flag a process starts with is the published value, DOWN when
\* there is none; a refresh of a follower calls no health endpoint and leaves
\* the flag at the value in the store, DOWN when there is none or the read
\* fails.
C20_FollowerRefresh ==
    /\ up = (cache = "true")
    /\ [][\A o \in {"healthy", "failing", "error"} :
            (~master /\ HealthCheck(o))
                => /\ probed' = "none" /\ probed = "none"
                   /\ up' = (o # "error" /\ cache = "true")
                   /\ cache' = cache]_vars

\* A follower whose flag a 500 answer had set to DOWN has refreshed it to UP
\* from the store.
C20_Witness ==
    /\ ~master /\ up /\ probed = "none"
    /\ \E w \in Workers :
          pc[w] = "sleep" /\ answers[cur[w]] /\ attempts[cur[w]] = 1

\* The 2xx statuses among the answers of a provider.
Status2xx == {s \in ProviderStatuses : s \div 100 = 2}

\* C21 (as claimed): an answer with any 2xx status is a success: ProcessTask
\* goes on to store the record and the index entry, and the task is neither
\* dropped nor retried.
C21_SuccessClassification ==
    [][\A w \in Workers, o \in Status2xx :
         Respond(w, o) => /\ pc'[w] = "save"
                          /\ cur'[w] = cur[w]
                          /\ done'[cur[w]] = done[cur[w]]]_vars

\* C22 (as claimed): an attempt that ends with a transport error or with a
\* status that is neither 2xx nor 5xx is reported as a failure, and the worker
\* keeps the task for a further attempt.
C22_FailureRetried ==
    [][\A w \in Workers, o \in ProviderStatuses \cup {NetErr} :
         (/\ Respond(w, o)
          /\ o \notin Status2xx
          /\ ~(o # NetErr /\ isRetryableError(o))
          /\ attempts[cur[w]] < maxRetries)
             => /\ pc'[w] = "sleep"
                /\ cur'[w] = cur[w]]_vars

\* Whether task t is an item of the queue q.
InQueue(q, t) == \E i \in 1..Len(q) : q[i] = t

\* C23 (as claimed): a task that a provider has accepted and whose
\* savePayment failed is finished: the worker holding it makes no further
\* attempt with it and does not put it into the queue.
C23_PaidNotRecorded ==
    [][\A w \in Workers :
         (cur[w] # NoTask /\ won[cur[w]] /\ pc[w] \in {"save", "sleep"})
             => /\ attempts'[cur[w]] = attempts[cur[w]]
                /\ pc'[w] # "sleep"
                /\ ~InQueue(queue', cur[w])]_vars

\* C24 (as claimed): the queue grows only by an accepted POST /payments; a
\* worker that retries keeps its task and leaves the queue as it was.
C24_RetryNotRequeued ==
    [][/\ Len(queue') > Len(queue) => nextId' = nextId + 1
       /\ \A w \in Workers :
            (pc[w] = "sleep" /\ pc'[w] # "sleep") => queue' = queue]_vars

\* Settings of the backoff policy, in milliseconds: base delay and jitter
\* bound.
BackoffConfigs ==
    [baseDelay : {MsPerSecond \div 2, MsPerSecond, 2 * MsPerSecond},
     jitterMax : {MsPerSecond \div 2, MsPerSecond}]

\* C25 (as claimed): the wait that follows the n-th failed attempt of a task,
\* n up to maxRetries, is at least baseDelay * 2^(n-1) and less than
\* baseDelay * 2^(n-1) + jitterMax, whatever base delay and jitter bound are
\* configured.
C25_BackoffBounds ==
    [][\A w \in Workers :
         (pc[w] # "sleep" /\ pc'[w] = "sleep" /\ attempts[cur[w]] <= maxRetries)
             => \A c \in BackoffConfigs :
                   LET n == attempts[cur[w]] IN
                   /\ retryDelay >= c.baseDelay * 2^(n - 1)
                   /\ retryDelay < c.baseDelay * 2^(n - 1) + c.jitterMax]_vars

\* C26: while a worker sleeps in its backoff or waits for the answer of a
\* provider, every idle worker can take the next item of the queue.
C26_WorkerIndependence ==
    \A w \in Workers :
        (/\ Alive /\ pc[w] = "recv" /\ queue # <<>>
         /\ \E v \in Workers \ {w} : pc[v] \in {"sleep", "posted"})
            => ENABLED Dequeue(w)

\* One worker sleeps after a failed attempt of its task while the other is
\* idle and the next request waits in the queue.
C26_Witness ==
    \E v \in Workers, w \in Workers :
        /\ pc[v] = "sleep" /\ attempts[cur[v]] >= 1
        /\ pc[w] = "recv" /\ queue # <<>> /\ Head(queue) # cur[v]
        /\ Alive /\ up /\ body[Head(queue)].ok

\* C27: every admitted task is, at any time, held by at most one worker or
\* once in the queue, never both: no two of its attempts are in flight
\* together and none starts before the one before it has ended.
C27_SequentialAttempts ==
    \A t \in DOMAIN body :
        Cardinality({w \in Workers : cur[w] = t})
            + Cardinality({i \in 1..Len(queue) : queue[i] = t}) <= 1

\* The second attempt of a task is in flight while the other worker waits
\* for the answer to an attempt of another task.
C27_Witness ==
    \E w \in Workers, v \in Workers :
        /\ pc[w] = "posted" /\ attempts[cur[w]] = 2
        /\ pc[v] = "posted" /\ cur[v] # cur[w]

\* The fields of the stored JSON value of a record.
StoredFields(r) ==
    [amount |-> r.amount, requestedAt |-> r.requestedAt, onDefault |-> r.onDefault]

\* C28 (as claimed): a record that has been written stays as it is: no step
\* changes its value or the score of its index entry, and none removes it.
C28_RecordImmutability ==
    [][\A c \in Cids :
         records[c].present
             => /\ records'[c].present
                /\ StoredFields(records'[c]) = StoredFields(records[c])
                /\ index'[c] = index[c]]_vars

\* C29 (as claimed): a save that reaches the store writes, as requestedAt of
\* the record and as score of its index entry, the instant taken by the
\* attempt that succeeded, so that the score equals the requestedAt of the
\* record.
C29_DeliveryTimeStamping ==
    [][\A w \in Workers, o \in {"ok", "noreply"} :
         savePayment(w, o)
             => LET c == CidOf(cur[w]) IN
                /\ index'[c] = stamp[w]
                /\ records'[c].requestedAt = stamp[w]
                /\ index'[c] = records'[c].requestedAt]_vars

\* C30 (as claimed): in WorkerPool.StartWorker the Tries of a task grows by
\* exactly 1 with every delivery, a failed task is sent back only while its
\* Tries is below maxRetries and the copy sent back carries the incremented
\* Tries, and no task is delivered more than maxRetries times.
C30_AttemptCounter ==
    [][/\ \A w \in Workers :
            (StartWorkerRecv(w) /\ body[Head(queue)].ok)
                => tries'[w] = body[Head(queue)].tries + 1
       /\ \A w \in Workers :
            (StartWorkerRetry(w) /\ Len(queue') > Len(queue))
                => /\ tries[w] < maxRetries
                   /\ body'[cur[w]].tries = tries[w]
       /\ \A t \in DOMAIN body : attempts'[t] <= maxRetries]_vars

\* C31 (as claimed): the workers are never all blocked together in the send
\* that puts a task back into a full queue: while the queue is open, some
\* worker is in a position to receive or on its way to one.
C31_PoolDeadlockFree ==
    ~(/\ phase = "running"
      /\ Len(queue) = QueueCap
      /\ \A w \in Workers : pc[w] = "sleep")

\* C32 (as claimed): once the queue is closed no worker sends on it: a worker
\* whose attempt has failed ends its backoff without a send on the closed
\* channel, so the process does not panic and the queue stays as it was.
C32_NoSendOnClosedQueue ==
    [][\A w \in Workers :
         (phase = "closing" /\ Requeue(w))
             => /\ phase' = "closing"
                /\ queue' = queue]_vars

\* C33 (as claimed): the answer to an attempt takes the flag from UP to DOWN
\* only when it is a 5xx of the default provider; a 5xx of the fallback
\* provider leaves a flag that is UP as it is.
C33_WorkerDownOnlyDefault ==
    [][\A w \in Workers, o \in ProviderStatuses \cup {NetErr} :
         (Respond(w, o) /\ up /\ ~up')
             => /\ o # NetErr /\ isRetryableError(o)
                /\ target[w] = "default"]_vars

\* C34 (as claimed): on the leader, while the health endpoint of the default
\* provider answers failing=false at every call and the refresh loop keeps
\* running, a flag that is DOWN becomes UP again, whatever the endpoint of
\* the fallback provider answers.
C34_HealthRecovery == (master /\ ~up) ~> up
====
